---- MODULE Spec2Model ----
(***************************************************************************)
(* A model of catan-spectator's hexgrid module (coordinate algebra of the  *)
(* 19-tile board) and of the BoardState classes of states.py.              *)
(*                                                                         *)
(* hexgrid's functions are pure: the grid specification draws one call     *)
(* (function name and arguments) in Init and one action per function       *)
(* applies it.  Python's None and a raised Exception are the two integer   *)
(* sentinels None and Raised, which no input and no table entry equals.    *)
(* Dictionaries are sequences of <<key, value>> pairs in insertion order.  *)
(***************************************************************************)
EXTENDS Integers, Sequences, FiniteSets, TLC

VARIABLES
    pc,         \* "call" before the drawn call has run, "done" after it
    fn,         \* the name of the hexgrid function called
    args,       \* its arguments
    result,     \* what it returned (None, Raised: see above)
    tiles,      \* board.tiles: each tile's terrain and number (enumeration indices)
    last        \* the last BoardState method called: <<class, method, tile_id>>

vars == <<pc, fn, args, result, tiles, last>>

\* ---------------------------------------------------------------- bounds

\* Tile identifiers offered to the lookups: 1 - IdMargin .. 19 + IdMargin.
IdMargin == 2
\* Coordinates offered: -CoordMargin .. 0xDD + CoordMargin.
CoordMargin == 40
\* Offsets offered to the offset->direction lookups: -MaxOffset .. MaxOffset.
MaxOffset == 40
\* Longest candidate list given to nearest_tile_to_*_using_tiles, and the largest
\* tile identifier in it (candidates are drawn from 1..MaxCandidateId).
MaxCandidates == 2
MaxCandidateId == 9
\* Tiles of the board that the BoardState model holds.
NumBoardTiles == 2
\* Members of models.Terrain and models.HexNumber.
NumTerrain == 3
NumHexNumber == 4

\* ---------------------------------------------------------------- values

\* A two-digit hexadecimal literal 0x<hi><lo>.
Hex(hi, lo) == 16 * hi + lo

None == -1000
Raised == -2000

EDGE == 0
NODE == 1
TILE == 2

\* The sentinel direction the offset lookups return for an unknown offset.
ZZ == "ZZ"

\* str() of an int or of None.
str(v) == IF v = None THEN "None" ELSE ToString(v)

\* '({} {})'.format(tile_id, dirn)
format(tile_id, dirn) == "(" \o str(tile_id) \o " " \o dirn \o ")"

Range(s) == {s[i] : i \in 1..Len(s)}

\* dict.keys(), dict.values(), dict[key] of a dictionary kept as a sequence of pairs.
keys(dict) == {dict[i][1] : i \in 1..Len(dict)}
values(dict) == {dict[i][2] : i \in 1..Len(dict)}
getitem(dict, key) == dict[CHOOSE i \in 1..Len(dict) : dict[i][1] = key][2]

\* ---------------------------------------------------------------- tables

_tile_id_to_coord == <<
    <<1, Hex(3, 7)>>, <<12, Hex(5, 9)>>, <<11, Hex(7, 11)>>,
    <<2, Hex(3, 5)>>, <<13, Hex(5, 7)>>, <<18, Hex(7, 9)>>, <<10, Hex(9, 11)>>,
    <<3, Hex(3, 3)>>, <<14, Hex(5, 5)>>, <<19, Hex(7, 7)>>, <<17, Hex(9, 9)>>, <<9, Hex(11, 11)>>,
    <<4, Hex(5, 3)>>, <<15, Hex(7, 5)>>, <<16, Hex(9, 7)>>, <<8, Hex(11, 9)>>,
    <<5, Hex(7, 3)>>, <<6, Hex(9, 5)>>, <<7, Hex(11, 7)>> >>

_tile_tile_offsets == <<
    <<0 - Hex(2, 0), "NW">>,
    <<0 - Hex(2, 2), "W">>,
    <<0 - Hex(0, 2), "SW">>,
    <<Hex(2, 0), "SE">>,
    <<Hex(2, 2), "E">>,
    <<Hex(0, 2), "NE">> >>

_tile_node_offsets == <<
    <<Hex(0, 1), "N">>,
    <<0 - Hex(1, 0), "NW">>,
    <<0 - Hex(0, 1), "SW">>,
    <<Hex(1, 0), "S">>,
    <<Hex(2, 1), "SE">>,
    <<Hex(1, 2), "NE">> >>

_tile_edge_offsets == <<
    <<0 - Hex(1, 0), "NW">>,
    <<0 - Hex(1, 1), "W">>,
    <<0 - Hex(0, 1), "SW">>,
    <<Hex(1, 0), "SE">>,
    <<Hex(1, 1), "E">>,
    <<Hex(0, 1), "NE">> >>

\* ---------------------------------------------------------------- hexgrid

legal_tile_ids == keys(_tile_id_to_coord)

legal_tile_coords == values(_tile_id_to_coord)

\* The elements of a set of integers in ascending order.
RECURSIVE ascending(_)
ascending(S) ==
    IF S = {} THEN <<>>
    ELSE LET m == CHOOSE x \in S : \A y \in S : x <= y
         IN  <<m>> \o ascending(S \ {m})

\* An order in which iterating the set legal_tile_ids() may yield its elements.  The
\* language leaves a set's iteration order open; every function below that scans the
\* set returns its first hit, so the orders that differ in their first element give
\* every outcome any order can give.  iter_legal_tile_ids(1) is ascending order.
iter_legal_tile_ids(first) == <<first>> \o ascending(legal_tile_ids \ {first})

tile_id_to_coord(tile_id) ==
    IF tile_id \in keys(_tile_id_to_coord)
    THEN getitem(_tile_id_to_coord, tile_id)
    ELSE -1

RECURSIVE tile_id_from_coord_scan(_, _)
tile_id_from_coord_scan(k, coord) ==
    IF k > Len(_tile_id_to_coord) THEN Raised
    ELSE IF _tile_id_to_coord[k][2] = coord THEN _tile_id_to_coord[k][1]
    ELSE tile_id_from_coord_scan(k + 1, coord)

\* Mutant: returns the row of the table that holds the coordinate, not its identifier.
tile_id_from_coord_row(coord) ==
    IF coord \in values(_tile_id_to_coord)
    THEN CHOOSE k \in 1..Len(_tile_id_to_coord) : _tile_id_to_coord[k][2] = coord
    ELSE Raised

tile_id_from_coord(coord) == tile_id_from_coord_scan(1, coord)

tile_tile_offset_to_direction(offset) ==
    IF offset \in keys(_tile_tile_offsets) THEN getitem(_tile_tile_offsets, offset) ELSE ZZ

tile_node_offset_to_direction(offset) ==
    IF offset \in keys(_tile_node_offsets) THEN getitem(_tile_node_offsets, offset) ELSE ZZ

tile_edge_offset_to_direction(offset) ==
    IF offset \in keys(_tile_edge_offsets) THEN getitem(_tile_edge_offsets, offset) ELSE ZZ

RECURSIVE tile_id_in_direction_scan(_, _, _)
tile_id_in_direction_scan(k, coord_from, direction) ==
    IF k > Len(_tile_tile_offsets) THEN None
    ELSE LET offset == _tile_tile_offsets[k][1]
             dirn == _tile_tile_offsets[k][2]
             coord_to == coord_from + offset
         IN  IF dirn = direction /\ coord_to \in legal_tile_coords
             THEN tile_id_from_coord(coord_to)
             ELSE tile_id_in_direction_scan(k + 1, coord_from, direction)

tile_id_in_direction(from_tile_id, direction) ==
    tile_id_in_direction_scan(1, tile_id_to_coord(from_tile_id), direction)

\* Mutant: the offset is taken the wrong way round.
direction_to_tile_reversed(from_tile_id, to_tile_id) ==
    LET coord_from == tile_id_to_coord(from_tile_id)
        coord_to == tile_id_to_coord(to_tile_id)
    IN  tile_tile_offset_to_direction(coord_from - coord_to)

direction_to_tile(from_tile_id, to_tile_id) ==
    LET coord_from == tile_id_to_coord(from_tile_id)
        coord_to == tile_id_to_coord(to_tile_id)
    IN  tile_tile_offset_to_direction(coord_to - coord_from)

RECURSIVE nearest_tile_to_edge_scan(_, _, _)
nearest_tile_to_edge_scan(k, tile_ids, edge_coord) ==
    IF k > Len(tile_ids) THEN None
    ELSE IF edge_coord - tile_id_to_coord(tile_ids[k]) \in keys(_tile_edge_offsets)
    THEN tile_ids[k]
    ELSE nearest_tile_to_edge_scan(k + 1, tile_ids, edge_coord)

nearest_tile_to_edge_using_tiles(tile_ids, edge_coord) ==
    nearest_tile_to_edge_scan(1, tile_ids, edge_coord)

nearest_tile_to_edge(edge_coord, first) ==
    nearest_tile_to_edge_using_tiles(iter_legal_tile_ids(first), edge_coord)

RECURSIVE nearest_tile_to_node_scan(_, _, _)
nearest_tile_to_node_scan(k, tile_ids, node_coord) ==
    IF k > Len(tile_ids) THEN None
    ELSE IF node_coord - tile_id_to_coord(tile_ids[k]) \in keys(_tile_node_offsets)
    THEN tile_ids[k]
    ELSE nearest_tile_to_node_scan(k + 1, tile_ids, node_coord)

\* Mutant: the scan does not stop at its first hit and returns the last one.
nearest_tile_to_node_using_tiles_last(tile_ids, node_coord) ==
    LET hits == {k \in 1..Len(tile_ids) :
                    node_coord - tile_id_to_coord(tile_ids[k]) \in keys(_tile_node_offsets)}
    IN  IF hits = {} THEN None
        ELSE tile_ids[CHOOSE k \in hits : \A j \in hits : j <= k]

nearest_tile_to_node_using_tiles(tile_ids, node_coord) ==
    nearest_tile_to_node_scan(1, tile_ids, node_coord)

nearest_tile_to_node(node_coord, first) ==
    nearest_tile_to_node_using_tiles(iter_legal_tile_ids(first), node_coord)

edges_touching_tile(tile_id) ==
    LET coord == tile_id_to_coord(tile_id)
    IN  [k \in 1..Len(_tile_edge_offsets) |-> coord + _tile_edge_offsets[k][1]]

\* Mutant: the nodes are computed from the tile-edge table.
nodes_touching_tile_by_edges(tile_id) ==
    LET coord == tile_id_to_coord(tile_id)
    IN  [k \in 1..Len(_tile_edge_offsets) |-> coord + _tile_edge_offsets[k][1]]

nodes_touching_tile(tile_id) ==
    LET coord == tile_id_to_coord(tile_id)
    IN  [k \in 1..Len(_tile_node_offsets) |-> coord + _tile_node_offsets[k][1]]

legal_edge_coords == UNION {Range(edges_touching_tile(tile_id)) : tile_id \in legal_tile_ids}

legal_node_coords == UNION {Range(nodes_touching_tile(tile_id)) : tile_id \in legal_tile_ids}

\* Mutant: the edge's direction is looked up in the tile-node table.
coastal_edges_by_node_direction(tile_id) ==
    LET tile_coord == tile_id_to_coord(tile_id)
        is_coastal(edge_coord) ==
            tile_id_in_direction(tile_id, tile_node_offset_to_direction(edge_coord - tile_coord))
                = None
    IN  SelectSeq(edges_touching_tile(tile_id), is_coastal)

coastal_edges(tile_id) ==
    LET tile_coord == tile_id_to_coord(tile_id)
        is_coastal(edge_coord) ==
            tile_id_in_direction(tile_id, tile_edge_offset_to_direction(edge_coord - tile_coord))
                = None
    IN  SelectSeq(edges_touching_tile(tile_id), is_coastal)

coastal_tile_ids(first) ==
    LET has_coast(tid) == Len(coastal_edges(tid)) > 0
    IN  SelectSeq(iter_legal_tile_ids(first), has_coast)

\* Mutant: every edge touching the tile is reported, coastal or not.
coastal_coords_of_every_edge(tile_id) ==
    LET tile_coord == tile_id_to_coord(tile_id)
        touching == edges_touching_tile(tile_id)
    IN  [k \in 1..Len(touching) |->
            <<tile_id, tile_edge_offset_to_direction(touching[k] - tile_coord)>>]

\* The inner loop of coastal_coords: the (tile id, direction) pairs of one tile.
coastal_coords_of(tile_id) ==
    LET tile_coord == tile_id_to_coord(tile_id)
        dirn(edge_coord) == tile_edge_offset_to_direction(edge_coord - tile_coord)
        no_tile(edge_coord) == tile_id_in_direction(tile_id, dirn(edge_coord)) = None
        kept == SelectSeq(coastal_edges(tile_id), no_tile)
    IN  [k \in 1..Len(kept) |-> <<tile_id, dirn(kept[k])>>]

RECURSIVE coastal_coords_scan(_, _)
coastal_coords_scan(k, tile_ids) ==
    IF k > Len(tile_ids) THEN <<>>
    ELSE coastal_coords_of(tile_ids[k]) \o coastal_coords_scan(k + 1, tile_ids)

coastal_coords(first) == coastal_coords_scan(1, coastal_tile_ids(first))

\* Mutant: the offset is taken from the tile identifier, not from the tile's coordinate.
location_offset_from_id(hexgrid_type, coord, first) ==
    IF hexgrid_type = TILE THEN str(coord)
    ELSE IF hexgrid_type = NODE THEN
        LET tile_id == nearest_tile_to_node(coord, first)
            dirn == tile_node_offset_to_direction(coord - tile_id)
        IN  format(tile_id, dirn)
    ELSE IF hexgrid_type = EDGE THEN
        LET tile_id == nearest_tile_to_edge(coord, first)
            dirn == tile_edge_offset_to_direction(coord - tile_id)
        IN  format(tile_id, dirn)
    ELSE None

location(hexgrid_type, coord, first) ==
    IF hexgrid_type = TILE THEN str(coord)
    ELSE IF hexgrid_type = NODE THEN
        LET tile_id == nearest_tile_to_node(coord, first)
            dirn == tile_node_offset_to_direction(coord - tile_id_to_coord(tile_id))
        IN  format(tile_id, dirn)
    ELSE IF hexgrid_type = EDGE THEN
        LET tile_id == nearest_tile_to_edge(coord, first)
            dirn == tile_edge_offset_to_direction(coord - tile_id_to_coord(tile_id))
        IN  format(tile_id, dirn)
    ELSE None

\* ---------------------------------------------------------------- states.py

BoardStateModifiable == "BoardStateModifiable"
BoardStateLocked == "BoardStateLocked"

\* list(models.Terrain) and list(models.HexNumber): the members in definition order.
Terrain == [k \in 1..NumTerrain |-> "Terrain." \o ToString(k)]
HexNumber == [k \in 1..NumHexNumber |-> "HexNumber." \o ToString(k)]

\* list.index(x), 0-based.
index(list, x) == (CHOOSE k \in 1..Len(list) : list[k] = x) - 1

\* Whether list[i] exists for a 0-based index i that may be negative, and
\* the 1-based position it names.
has_item(list, i) == 0 - Len(list) <= i /\ i < Len(list)
position(list, i) == IF i >= 0 THEN i + 1 ELSE Len(list) + i + 1

hex_number_change_allowed(self) == self = BoardStateModifiable

hex_type_change_allowed(self) == self = BoardStateModifiable

hex_change_allowed(self) == hex_number_change_allowed(self) /\ hex_type_change_allowed(self)

\* Mutant: the terrain is cycled without asking hex_type_change_allowed().
cycle_hex_type_unguarded(self, board_tiles, tile_id) ==
    IF has_item(board_tiles, tile_id - 1)
    THEN LET tile == position(board_tiles, tile_id - 1)
             next_idx == (index(Terrain, board_tiles[tile].terrain) + 1) % Len(Terrain)
         IN  [board_tiles EXCEPT ![tile].terrain = Terrain[next_idx + 1]]
    ELSE board_tiles

\* board.tiles after self.cycle_hex_type(tile_id); an IndexError leaves it as it was.
cycle_hex_type(self, board_tiles, tile_id) ==
    IF hex_type_change_allowed(self) /\ has_item(board_tiles, tile_id - 1)
    THEN LET tile == position(board_tiles, tile_id - 1)
             next_idx == (index(Terrain, board_tiles[tile].terrain) + 1) % Len(Terrain)
             next_terrain == Terrain[next_idx + 1]
         IN  [board_tiles EXCEPT ![tile].terrain = next_terrain]
    ELSE board_tiles

cycle_hex_number(self, board_tiles, tile_id) ==
    IF hex_number_change_allowed(self) /\ has_item(board_tiles, tile_id - 1)
    THEN LET tile == position(board_tiles, tile_id - 1)
             next_idx == (index(HexNumber, board_tiles[tile].number) + 1) % Len(HexNumber)
             next_hex_number == HexNumber[next_idx + 1]
         IN  [board_tiles EXCEPT ![tile].number = next_hex_number]
    ELSE board_tiles

\* ---------------------------------------------------------------- inputs

IdInputs == (1 - IdMargin)..(19 + IdMargin)
CoordInputs == (0 - CoordMargin)..(Hex(13, 13) + CoordMargin)
OffsetInputs == (0 - MaxOffset)..MaxOffset
DirectionInputs ==
    values(_tile_tile_offsets) \cup values(_tile_node_offsets) \cup values(_tile_edge_offsets)
        \cup {ZZ}
TypeInputs == {EDGE, NODE, TILE, TILE + 1}
CandidateInputs == UNION {[1..n -> 1..MaxCandidateId] : n \in 0..MaxCandidates}
TileIdInputs == 0..(NumBoardTiles + 1)
Boards == [1..NumBoardTiles -> [terrain : Range(Terrain), number : Range(HexNumber)]]

\* ---------------------------------------------------------------- hexgrid calls

Idle == tiles = [k \in 1..NumBoardTiles |-> [terrain |-> Terrain[1], number |-> HexNumber[1]]]
        /\ last = <<>>

Init ==
    /\ pc = "call"
    /\ result = None
    /\ Idle
    /\ \/ fn = "location" /\ args \in TypeInputs \X CoordInputs \X legal_tile_ids
       \/ fn = "coastal_tile_ids" /\ args \in legal_tile_ids \X {0}
       \/ fn = "coastal_coords" /\ args \in legal_tile_ids \X {0}
       \/ fn = "coastal_edges" /\ args \in IdInputs \X {0}
       \/ fn = "tile_id_in_direction" /\ args \in IdInputs \X DirectionInputs
       \/ fn = "direction_to_tile" /\ args \in IdInputs \X IdInputs
       \/ fn = "tile_tile_offset_to_direction" /\ args \in OffsetInputs \X {0}
       \/ fn = "tile_node_offset_to_direction" /\ args \in OffsetInputs \X {0}
       \/ fn = "tile_edge_offset_to_direction" /\ args \in OffsetInputs \X {0}
       \/ fn = "tile_id_to_coord" /\ args \in IdInputs \X {0}
       \/ fn = "tile_id_from_coord" /\ args \in CoordInputs \X {0}
       \/ fn = "nearest_tile_to_edge" /\ args \in CoordInputs \X legal_tile_ids
       \/ fn = "nearest_tile_to_edge_using_tiles" /\ args \in CandidateInputs \X CoordInputs
       \/ fn = "nearest_tile_to_node" /\ args \in CoordInputs \X legal_tile_ids
       \/ fn = "nearest_tile_to_node_using_tiles" /\ args \in CandidateInputs \X CoordInputs
       \/ fn = "edges_touching_tile" /\ args \in IdInputs \X {0}
       \/ fn = "nodes_touching_tile" /\ args \in IdInputs \X {0}
       \/ fn \in {"legal_edge_coords", "legal_node_coords", "legal_tile_ids",
                  "legal_tile_coords"} /\ args = <<0, 0>>

\* The call `name` returns (or raises) `value`.
Return(name, value) ==
    /\ pc = "call"
    /\ fn = name
    /\ result' = value
    /\ pc' = "done"
    /\ UNCHANGED <<fn, args, tiles, last>>

Location == Return("location", location(args[1], args[2], args[3]))
CoastalTileIds == Return("coastal_tile_ids", coastal_tile_ids(args[1]))
CoastalCoords == Return("coastal_coords", coastal_coords(args[1]))
CoastalEdges == Return("coastal_edges", coastal_edges(args[1]))
TileIdInDirection == Return("tile_id_in_direction", tile_id_in_direction(args[1], args[2]))
DirectionToTile == Return("direction_to_tile", direction_to_tile(args[1], args[2]))
TileTileOffsetToDirection ==
    Return("tile_tile_offset_to_direction", tile_tile_offset_to_direction(args[1]))
TileNodeOffsetToDirection ==
    Return("tile_node_offset_to_direction", tile_node_offset_to_direction(args[1]))
TileEdgeOffsetToDirection ==
    Return("tile_edge_offset_to_direction", tile_edge_offset_to_direction(args[1]))
TileIdToCoord == Return("tile_id_to_coord", tile_id_to_coord(args[1]))
TileIdFromCoord == Return("tile_id_from_coord", tile_id_from_coord(args[1]))
NearestTileToEdge == Return("nearest_tile_to_edge", nearest_tile_to_edge(args[1], args[2]))
NearestTileToEdgeUsingTiles ==
    Return("nearest_tile_to_edge_using_tiles", nearest_tile_to_edge_using_tiles(args[1], args[2]))
NearestTileToNode == Return("nearest_tile_to_node", nearest_tile_to_node(args[1], args[2]))
NearestTileToNodeUsingTiles ==
    Return("nearest_tile_to_node_using_tiles", nearest_tile_to_node_using_tiles(args[1], args[2]))
EdgesTouchingTile == Return("edges_touching_tile", edges_touching_tile(args[1]))
NodesTouchingTile == Return("nodes_touching_tile", nodes_touching_tile(args[1]))
LegalEdgeCoords == Return("legal_edge_coords", legal_edge_coords)
LegalNodeCoords == Return("legal_node_coords", legal_node_coords)
LegalTileIds == Return("legal_tile_ids", legal_tile_ids)
LegalTileCoords == Return("legal_tile_coords", legal_tile_coords)

Next ==
    \/ Location
    \/ CoastalTileIds
    \/ CoastalCoords
    \/ CoastalEdges
    \/ TileIdInDirection
    \/ DirectionToTile
    \/ TileTileOffsetToDirection
    \/ TileNodeOffsetToDirection
    \/ TileEdgeOffsetToDirection
    \/ TileIdToCoord
    \/ TileIdFromCoord
    \/ NearestTileToEdge
    \/ NearestTileToEdgeUsingTiles
    \/ NearestTileToNode
    \/ NearestTileToNodeUsingTiles
    \/ EdgesTouchingTile
    \/ NodesTouchingTile
    \/ LegalEdgeCoords
    \/ LegalNodeCoords
    \/ LegalTileIds
    \/ LegalTileCoords

Spec == Init /\ [][Next]_vars

\* ---------------------------------------------------------------- BoardState calls

InitBoard ==
    /\ pc = "idle"
    /\ fn = ""
    /\ args = <<>>
    /\ result = None
    /\ tiles \in Boards
    /\ last = <<>>

CycleHexType ==
    \E self \in {BoardStateModifiable, BoardStateLocked}, tile_id \in TileIdInputs :
        /\ tiles' = cycle_hex_type(self, tiles, tile_id)
        /\ last' = <<self, "cycle_hex_type", tile_id>>
        /\ UNCHANGED <<pc, fn, args, result>>

CycleHexNumber ==
    \E self \in {BoardStateModifiable, BoardStateLocked}, tile_id \in TileIdInputs :
        /\ tiles' = cycle_hex_number(self, tiles, tile_id)
        /\ last' = <<self, "cycle_hex_number", tile_id>>
        /\ UNCHANGED <<pc, fn, args, result>>

NextBoard == CycleHexType \/ CycleHexNumber

SpecBoard == InitBoard /\ [][NextBoard]_vars

\* ---------------------------------------------------------------- claims

\* The offset a topology table gives a direction label (the table read backwards).
offset_of(dict, dirn) == dict[CHOOSE k \in 1..Len(dict) : dict[k][2] = dirn][1]

opposite(dirn) ==
    CASE dirn = "NW" -> "SE"
      [] dirn = "SE" -> "NW"
      [] dirn = "W" -> "E"
      [] dirn = "E" -> "W"
      [] dirn = "SW" -> "NE"
      [] dirn = "NE" -> "SW"
      [] OTHER -> "none"

Called(name) == pc = "done" /\ fn = name

\* C1: the tile table is a bijection between the identifiers 1..19 and 19 distinct
\* coordinates: tile_id_from_coord(tile_id_to_coord(id)) = id for every id in 1..19, and
\* tile_id_to_coord(tile_id_from_coord(c)) = c for every legal tile coordinate c.
C1_TileTableBijection ==
    /\ Called("tile_id_to_coord") /\ args[1] \in 1..19
        => result \in legal_tile_coords /\ tile_id_from_coord(result) = args[1]
    /\ Called("tile_id_from_coord") /\ args[1] \in legal_tile_coords
        => result \in 1..19 /\ tile_id_to_coord(result) = args[1]
    /\ Called("legal_tile_ids") => result = 1..19
    /\ Called("legal_tile_coords") => Cardinality(result) = 19

C1_Witness ==
    Called("tile_id_from_coord") /\ args[1] = Hex(11, 11) /\ result = 9

\* C2: for adjacent legal tiles a, b (their coordinate difference is a tile-tile
\* delta), direction_to_tile(a, b) and direction_to_tile(b, a) are opposite directions
\* and tile_id_in_direction(a, direction_to_tile(a, b)) = b.
C2_AdjacencySymmetry ==
    Called("direction_to_tile") /\ args[1] \in 1..19 /\ args[2] \in 1..19
        /\ tile_id_to_coord(args[2]) - tile_id_to_coord(args[1]) \in keys(_tile_tile_offsets)
    => /\ result \in values(_tile_tile_offsets)
       /\ direction_to_tile(args[2], args[1]) = opposite(result)
       /\ tile_id_in_direction(args[1], result) = args[2]

C2_Witness ==
    Called("direction_to_tile") /\ args = <<1, 12>> /\ result = "E"

\* C3: legal_tile_coords() has 19 elements, legal_node_coords() 54 and
\* legal_edge_coords() 72, the node and edge sets being the coordinates obtained by
\* adding the six tile-node / tile-edge deltas to each of the 19 tile coordinates.
C3_LegalSetSizes ==
    /\ Called("legal_tile_coords") => Cardinality(result) = 19
    /\ Called("legal_node_coords")
        => /\ Cardinality(result) = 54
           /\ result = {tile_id_to_coord(t) + o : t \in 1..19, o \in keys(_tile_node_offsets)}
    /\ Called("legal_edge_coords")
        => /\ Cardinality(result) = 72
           /\ result = {tile_id_to_coord(t) + o : t \in 1..19, o \in keys(_tile_edge_offsets)}
    /\ Called("nodes_touching_tile") /\ args[1] \in 1..19 => Cardinality(Range(result)) = 6
    /\ Called("edges_touching_tile") /\ args[1] \in 1..19 => Cardinality(Range(result)) = 6

C3_Witness ==
    Called("legal_node_coords") /\ Cardinality(result) = 54

\* C4: a tile id t in 1..19 is in coastal_tile_ids() iff tile_id_in_direction(t, d) is
\* None for at least one of the six tile-edge directions d; tile 1 (0x37) is coastal and
\* tile 14 (0x55), whose six neighbouring coordinates are all legal, is not.
C4_CoastalTiles ==
    Called("coastal_tile_ids")
    => /\ \A t \in 1..19 :
            t \in Range(result)
                <=> \E d \in values(_tile_edge_offsets) : tile_id_in_direction(t, d) = None
       /\ tile_id_to_coord(1) = Hex(3, 7) /\ 1 \in Range(result)
       /\ tile_id_to_coord(14) = Hex(5, 5) /\ 14 \notin Range(result)
       /\ \A o \in keys(_tile_tile_offsets) : Hex(5, 5) + o \in legal_tile_coords

C4_Witness ==
    Called("coastal_tile_ids") /\ Range(result) = 1..12

\* C5: nearest_tile_to_node_using_tiles (resp. _edge_) returns the first candidate t, in
\* list order, such that c - tile_id_to_coord(t) is a key of the tile-node (resp.
\* tile-edge) table, and None when no candidate is such (an empty list, a far coordinate).
C5_NearestIsFirstCandidate ==
    /\ Called("nearest_tile_to_node_using_tiles")
        => LET hits == {k \in 1..Len(args[1]) :
                            args[2] - tile_id_to_coord(args[1][k]) \in keys(_tile_node_offsets)}
           IN  IF hits = {} THEN result = None
               ELSE \E k \in hits : result = args[1][k] /\ \A j \in hits : k <= j
    /\ Called("nearest_tile_to_edge_using_tiles")
        => LET hits == {k \in 1..Len(args[1]) :
                            args[2] - tile_id_to_coord(args[1][k]) \in keys(_tile_edge_offsets)}
           IN  IF hits = {} THEN result = None
               ELSE \E k \in hits : result = args[1][k] /\ \A j \in hits : k <= j

\* Node 0x36 is the SW corner of tile 1 and the N corner of tile 2: the list decides.
C5_Witness ==
    Called("nearest_tile_to_node_using_tiles") /\ args = << <<2, 1>>, Hex(3, 6) >> /\ result = 2

\* C6: a tile identifier outside 1..19 given to tile_id_to_coord, and a coordinate that is
\* no legal tile coordinate given to tile_id_from_coord, is an error: neither call returns
\* an ordinary value.
C6_InvalidLookupIsError ==
    /\ Called("tile_id_to_coord") /\ args[1] \notin 1..19 => result = Raised
    /\ Called("tile_id_from_coord") /\ args[1] \notin legal_tile_coords => result = Raised

\* C7: for a legal node coordinate c, location(NODE, c) is "(t d)" with t a tile id in
\* 1..19 and d a tile-node label such that tile_id_to_coord(t) plus the delta of d is c;
\* likewise for legal edge coordinates and the tile-edge table; location(TILE, c) is the
\* decimal string of c, "5" for 5.
C7_LocationNamesTheCoordinate ==
    Called("location")
    => /\ args[1] = NODE /\ args[2] \in legal_node_coords
            => \E t \in 1..19, d \in values(_tile_node_offsets) :
                  /\ result = "(" \o ToString(t) \o " " \o d \o ")"
                  /\ tile_id_to_coord(t) + offset_of(_tile_node_offsets, d) = args[2]
       /\ args[1] = EDGE /\ args[2] \in legal_edge_coords
            => \E t \in 1..19, d \in values(_tile_edge_offsets) :
                  /\ result = "(" \o ToString(t) \o " " \o d \o ")"
                  /\ tile_id_to_coord(t) + offset_of(_tile_edge_offsets, d) = args[2]
       /\ args[1] = TILE => result = ToString(args[2])
       /\ args[1] = TILE /\ args[2] = 5 => result = "5"

C7_Witness ==
    Called("location") /\ args = <<NODE, Hex(3, 6), 2>> /\ result = "(2 N)"

\* The tiles that an edge coordinate touches.
tiles_touching_edge(edge_coord) ==
    {t \in legal_tile_ids : edge_coord \in Range(edges_touching_tile(t))}

\* C8: coastal_coords() returns, without duplicates, exactly the pairs (t, d) with no
\* legal tile in tile-edge direction d from tile t; (t, d) |-> tile_id_to_coord(t) +
\* delta(d) maps them one-to-one onto the legal edge coordinates that touch exactly one
\* tile, and every other legal edge coordinate touches exactly two.
C8_CoastalCoordsAreTheCoast ==
    Called("coastal_coords")
    => LET pairs == Range(result)
           edge_of(p) == tile_id_to_coord(p[1]) + offset_of(_tile_edge_offsets, p[2])
           coast == {e \in legal_edge_coords : Cardinality(tiles_touching_edge(e)) = 1}
       IN  /\ Len(result) = Cardinality(pairs)
           /\ pairs = {p \in (1..19) \X values(_tile_edge_offsets) :
                          tile_id_in_direction(p[1], p[2]) = None}
           /\ \A p, q \in pairs : edge_of(p) = edge_of(q) => p = q
           /\ {edge_of(p) : p \in pairs} = coast
           /\ \A e \in legal_edge_coords \ coast : Cardinality(tiles_touching_edge(e)) = 2

C8_Witness ==
    Called("coastal_coords") /\ Len(result) = 30 /\ <<1, "NW">> \in Range(result)

\* C9: for a coordinate c that touches none of the 19 tiles, location(NODE, c), resp.
\* location(EDGE, c), never carries one of the six valid tile-node, resp. tile-edge,
\* direction labels: the failed lookup is not presented as a location.
C9_NoLabelOffBoard ==
    Called("location")
    => /\ args[1] = NODE /\ args[2] \notin legal_node_coords
            => \A t \in IdInputs \cup {None}, d \in values(_tile_node_offsets) :
                  result # format(t, d)
       /\ args[1] = EDGE /\ args[2] \notin legal_edge_coords
            => \A t \in IdInputs \cup {None}, d \in values(_tile_edge_offsets) :
                  result # format(t, d)

\* What one BoardState call does to board.tiles, `last'` naming the call.
C10_Step ==
    last' # last \/ tiles' # tiles
    => LET self == last'[1]
           method == last'[2]
           i == last'[3] - 1
           tile == position(tiles, i)
           successor(list, x) ==
               LET k == CHOOSE j \in 1..Len(list) : list[j] = x
               IN  IF k = Len(list) THEN list[1] ELSE list[k + 1]
       IN  /\ self = BoardStateLocked => tiles' = tiles
           /\ self = BoardStateModifiable /\ has_item(tiles, i)
                => /\ \A other \in 1..Len(tiles) : other # tile => tiles'[other] = tiles[other]
                   /\ method = "cycle_hex_type"
                        => /\ tiles'[tile].terrain = successor(Terrain, tiles[tile].terrain)
                           /\ tiles'[tile].number = tiles[tile].number
                   /\ method = "cycle_hex_number"
                        => /\ tiles'[tile].number = successor(HexNumber, tiles[tile].number)
                           /\ tiles'[tile].terrain = tiles[tile].terrain

\* C10: a cycle_hex_type or cycle_hex_number call through a BoardStateLocked leaves every
\* tile as it was; through a BoardStateModifiable, cycle_hex_type(tile_id) sets the
\* terrain of board.tiles[tile_id - 1] to the next Terrain member in definition order,
\* the last being followed by the first, and changes nothing else, and cycle_hex_number
\* does so for the number and HexNumber.
C10_CycleOnlyWhenModifiable == [][C10_Step]_vars

\* The first tile was moved on to the first terrain: from the last one, by the wrap.
C10_Witness ==
    /\ last = <<BoardStateModifiable, "cycle_hex_type", 1>>
    /\ tiles[1].terrain = Terrain[1]

====
